---- MODULE Spec2Model ----
(***************************************************************************)
(* Request-admission and caching control plane of the service.             *)
(*                                                                         *)
(* This part models the report endpoint of web_new.py (GET /report), the   *)
(* background task generate_report_background, the asyncio lock            *)
(* report_lock that guards it, and the CacheManager (src/cache.py) the     *)
(* two use to persist the result.                                          *)
(*                                                                         *)
(* The service runs on one asyncio event loop.  A coroutine runs until its *)
(* next suspension; everything made runnable (a request whose dependencies *)
(* were resolved, a task made by asyncio.create_task, a task whose awaited *)
(* future completed) is appended to the loop's FIFO queue `ready` and run  *)
(* from its head.  agent.generate_security_report runs in the default      *)
(* thread-pool executor, outside the loop.                                 *)
(*                                                                         *)
(* Further parts model the whole CacheManager interface (CacheSpec), the   *)
(* SessionManager of src/security.py (SessSpec), the /query handler that   *)
(* uses it (QuerySpec), and SecurityMiddleware.dispatch (AdmSpec).  The    *)
(* parts share the process state; each specification moves its own part.   *)
(***************************************************************************)
EXTENDS Integers, Sequences, FiniteSets, TLC

\* ---------------------------------------------------------------- bounds
MaxReq == 3          \* report requests per behaviour
MaxTicks == 1        \* clock advances per behaviour
MaxSess == 2         \* session tokens generated per behaviour
MaxQuery == 2        \* /query requests per behaviour
MaxSessTicks == 2    \* clock advances per behaviour of the session part

\* ------------------------------------------------------ program constants
ERROR_TTL == 300             \* web_new.py:467  ttl=300
REPORT_SCHEMA_VERSION == 2   \* web_new.py:297
DEFAULT_CACHE_TTL == 3600    \* config.py:52  CACHE_TTL default
SESSION_LIFETIME == 3600     \* config.py:13  SecurityConfig.SESSION_LIFETIME
QUESTION_PREFIX == 100       \* cache.py:94   question[:100]
MAX_REQUEST_SIZE == 1048576  \* config.py:11  SecurityConfig.MAX_REQUEST_SIZE

\* -------------------------------------------------------- input domains
ReqIds == 1..MaxReq
\* values of config.cache_ttl = int(os.getenv('CACHE_TTL', '3600'))
CacheTtls == {60, ERROR_TTL, DEFAULT_CACHE_TTL}
\* what agent.generate_security_report returns: every run scans the project
\* anew, so the report of run t is a value of its own
ReportOf(t) == <<"report", t>>
\* str(e) of what it may raise
Messages == {"scan failed"}

ReportKey == "security_report"      \* get_report_cache_key()

NoneVal == [status |-> "none"]      \* Python None
NoTtl == 0                          \* ttl=None (falsy, like 0)

VARIABLES
  now,           \* wall clock, seconds
  ticks,         \* number of clock advances so far
  cache_ttl,     \* config.cache_ttl
  redis_client,  \* CacheManager.redis_client: "client" or "None"
  outage,        \* history: some call of the Redis client raised
  store,         \* Redis contents: key -> [value, expiry]
  locked,        \* report_lock._locked
  waiters,       \* report_lock._waiters, FIFO of task ids
  ready,         \* event loop ready queue, FIFO of [kind, id]
  pc,            \* per background task: position in generate_report_background
  result,        \* per background task: outcome of the executor future
  arrived,       \* per request: "no", or how it arrived: "seq" after every
                 \* earlier request was answered, "burst" otherwise
  resp,          \* per request: response body (status "pending" before)
  handled,       \* history per request: observations made while handled
  writes,        \* history: cache_manager.set calls of background tasks
  cop,           \* history: last CacheManager call made directly, its result
  lifetime,      \* SessionManager.lifetime (config.session_lifetime)
  sessions,      \* SessionManager.sessions: id -> session
  issued,        \* number of session tokens generated so far
  sop,           \* history: last SessionManager call made directly, its result
  query,          \* per /query request: its input, position and response
  max_request_size,  \* config.max_request_size
  adm,           \* history: last request given to the middleware, its outcome
  adm0           \* history: the first remembered request, its outcome

vars == <<now, ticks, cache_ttl, redis_client, outage, store,
          locked, waiters, ready, pc, result, arrived, resp, handled, writes,
          cop, lifetime, sessions, issued, sop, query, max_request_size, adm,
          adm0>>

\* the state of the report coordinator
reportVars == <<locked, waiters, ready, pc, result, arrived, resp, handled,
                writes>>
\* the state of the session registry and of the /query requests
sessVars == <<lifetime, sessions, issued, sop, query>>
\* the state of the admission filter
admVars == <<max_request_size, adm, adm0>>

\* ---------------------------------------------------------- CacheManager

\* Python values handed to the cache.  None is NoneVal; a record without a
\* "py" field is a dict with string keys over JSON-native values (the report
\* records below); the other values carry their Python type.
PyStr(s) == [py |-> "str", s |-> s]
PyInt(n) == [py |-> "int", n |-> n]
PyList(xs) == [py |-> "list", items |-> xs]
PyTuple(xs) == [py |-> "tuple", items |-> xs]
PyDict(ks, vs) == [py |-> "dict", keys |-> ks, vals |-> vs]
PySet(xs) == [py |-> "set", items |-> xs]
IsTyped(v) == "py" \in DOMAIN v

\* JSON text, as the tree it denotes
JString(s) == [js |-> "string", s |-> s]
JNumber(n) == [js |-> "number", n |-> n]
JArray(xs) == [js |-> "array", items |-> xs]
JObject(ns, vs) == [js |-> "object", names |-> ns, vals |-> vs]

\* json.dumps turns a dict key into a JSON name: a str is kept, an int is
\* written in decimal.
JsonName(k) == IF k.py = "int" THEN ToString(k.n) ELSE k.s

\* json.dumps raises TypeError on a value it has no encoding for.
RECURSIVE Serializable(_)
Serializable(v) ==
  IF ~IsTyped(v) THEN TRUE
  ELSE IF v.py \in {"str", "int"} THEN TRUE
  ELSE IF v.py \in {"list", "tuple"}
       THEN \A i \in DOMAIN v.items : Serializable(v.items[i])
  ELSE IF v.py = "dict"
       THEN /\ \A i \in DOMAIN v.keys : v.keys[i].py \in {"str", "int"}
            /\ \A i \in DOMAIN v.vals : Serializable(v.vals[i])
  ELSE FALSE

\* json.dumps: lists and tuples both become arrays, dicts become objects
\* whose names are strings.
RECURSIVE ToJson(_)
ToJson(v) ==
  IF ~IsTyped(v) THEN v
  ELSE IF v.py = "str" THEN JString(v.s)
  ELSE IF v.py = "int" THEN JNumber(v.n)
  ELSE IF v.py \in {"list", "tuple"}
       THEN JArray([i \in DOMAIN v.items |-> ToJson(v.items[i])])
  ELSE JObject([i \in DOMAIN v.keys |-> JsonName(v.keys[i])],
               [i \in DOMAIN v.vals |-> ToJson(v.vals[i])])

\* json.loads: arrays become lists, objects become dicts with str keys.
RECURSIVE FromJson(_)
FromJson(j) ==
  IF "js" \notin DOMAIN j THEN j
  ELSE IF j.js = "string" THEN PyStr(j.s)
  ELSE IF j.js = "number" THEN PyInt(j.n)
  ELSE IF j.js = "array"
       THEN PyList([i \in DOMAIN j.items |-> FromJson(j.items[i])])
  ELSE PyDict([i \in DOMAIN j.names |-> PyStr(j.names[i])],
              [i \in DOMAIN j.vals |-> FromJson(j.vals[i])])

\* json.dumps / json.loads: the text form and its parse.
JsonDumps(v) == [json |-> ToJson(v)]
JsonLoads(s) == FromJson(s.json)

\* Redis drops a key once its expiry time is reached.
RedisLive(s, t) == [k \in {x \in DOMAIN s : s[x].expiry > t} |-> s[k]]

\* redis_client.get(key): the stored text, or None
RedisGet(s, key, t) ==
  IF key \in DOMAIN s /\ s[key].expiry > t THEN s[key].value ELSE NoneVal

\* CacheManager.get: None without a client, None when the call raises,
\* None on a missing key, else the parsed value.
CacheGetNoneAfterOutage(s, key, t, rc, up) ==
  IF rc = "None" \/ ~up \/ outage THEN NoneVal
  ELSE IF RedisGet(s, key, t) # NoneVal THEN JsonLoads(RedisGet(s, key, t))
  ELSE NoneVal
CacheGet(s, key, t, rc, up) ==
  IF rc = "None" THEN NoneVal
  ELSE IF ~up THEN NoneVal
  ELSE IF RedisGet(s, key, t) # NoneVal THEN JsonLoads(RedisGet(s, key, t))
  ELSE NoneVal

\* ttl = ttl or self.config.cache_ttl
EffectiveTtlDefaultOnly(ttl, dflt) == dflt
EffectiveTtl(ttl, dflt) == IF ttl = NoTtl THEN dflt ELSE ttl

\* CacheManager.set returns bool(setex(...)), False without a client or
\* when json.dumps or the call raises (Redis refuses an expiry that is not
\* positive).
CacheSetOk(v, ttl, dflt, rc, up) ==
  rc = "client" /\ Serializable(v) /\ up /\ EffectiveTtl(ttl, dflt) > 0

\* the store after CacheManager.set
CacheSetStore(s, key, v, ttl, dflt, t, rc, up) ==
  IF CacheSetOk(v, ttl, dflt, rc, up)
  THEN [k \in DOMAIN s \cup {key} |->
          IF k = key
          THEN [value |-> JsonDumps(v), expiry |-> t + EffectiveTtl(ttl, dflt)]
          ELSE s[k]]
  ELSE s

\* --------------------------------------------------------------- records

ReadyRecord(d) ==
  [status |-> "success", version |-> REPORT_SCHEMA_VERSION, data |-> d]
ErrorRecord(m) == [status |-> "error", message |-> m]

Pending == [status |-> "pending", code |-> 0, report |-> NoneVal]
NotHandled == [at |-> 0, seen |-> 0, scheduled |-> FALSE, lockHeld |-> FALSE,
               cached |-> NoneVal]
NoData == <<"report", 0>>
NoResult == [ok |-> FALSE, data |-> NoData, message |-> ""]

Req(r) == [kind |-> "req", id |-> r]
Task(t) == [kind |-> "task", id |-> t]

\* ---------------------------------------------- the other parts, at rest

QueryIds == 1..MaxQuery
NoCookie == 0                 \* request.cookies.get("session_id") is falsy
ForgedId == MaxSess + 1       \* a token the service never generated

\* no CacheManager call was made directly yet
NoCacheOp == [op |-> "none", key |-> "", val |-> NoneVal, ttl |-> NoTtl,
              at |-> 0, up |-> TRUE, retv |-> NoneVal, retb |-> FALSE,
              retn |-> 0, raised |-> FALSE,
              given |-> FALSE, setex |-> FALSE, expiry |-> 0]
\* no SessionManager call was made yet
NoSession == [client_id |-> "", created_at |-> 0, last_accessed |-> 0]
NoSessOp == [op |-> "none", id |-> NoCookie, ok |-> FALSE, at |-> 0,
             raised |-> FALSE, was |-> NoSession]
\* a /query request that did not arrive yet
NoQuery == [pc |-> "idle", cookie |-> NoCookie, peer |-> "", status |-> 0,
            setCookie |-> NoCookie]
\* no request went through the middleware yet
NoHeader == [present |-> FALSE, text |-> <<>>]
NoAdm == [host |-> NoHeader, clen |-> NoHeader, down |-> "none",
          result |-> "none", status |-> 0, detail |-> "", passed |-> FALSE,
          secured |-> FALSE]

CacheOpIdle == cop = NoCacheOp
\* SessionManager.__init__: an empty registry; no /query request yet
SessEmpty ==
  /\ sessions = <<>>
  /\ issued = 0
  /\ sop = NoSessOp
  /\ query = [r \in QueryIds |-> NoQuery]
SessIdle == lifetime = SESSION_LIFETIME /\ SessEmpty
AdmIdle ==
  /\ max_request_size = MAX_REQUEST_SIZE
  /\ adm = NoAdm
  /\ adm0 = NoAdm

\* ------------------------------------------------------------------ Init

\* the cache as the process finds it at start: CacheManager.__init__ keeps a
\* client only if caching is enabled and the ping succeeds
CacheManagerInit(enabled, ping) ==
  IF enabled /\ ping THEN "client" ELSE "None"
CacheStart ==
  /\ now = 0
  /\ ticks = 0
  /\ cache_ttl \in CacheTtls
  /\ redis_client \in {CacheManagerInit(enabled, ping) :
                          enabled \in BOOLEAN, ping \in BOOLEAN}
  /\ outage = FALSE
  /\ store = <<>>
\* the cache out of the picture: disabled, never called
CacheQuiet ==
  /\ now = 0
  /\ ticks = 0
  /\ cache_ttl = DEFAULT_CACHE_TTL
  /\ redis_client = "None"
  /\ outage = FALSE
  /\ store = <<>>
\* no /report request arrived yet
ReportIdle ==
  /\ locked = FALSE
  /\ waiters = <<>>
  /\ ready = <<>>
  /\ pc = [t \in ReqIds |-> "none"]
  /\ result = [t \in ReqIds |-> NoResult]
  /\ arrived = [r \in ReqIds |-> "no"]
  /\ resp = [r \in ReqIds |-> Pending]
  /\ handled = [r \in ReqIds |-> NotHandled]
  /\ writes = <<>>

Init == CacheStart /\ ReportIdle /\ CacheOpIdle /\ SessIdle /\ AdmIdle

\* ------------------------------------------------------------ report_lock

\* asyncio.Lock.acquire takes the lock at once only when it is free and
\* nobody is queued for it; otherwise the caller queues and suspends.
LockFastPathAlways(l, w) == TRUE
LockFastPath(l, w) == ~l /\ w = <<>>

\* `async with report_lock` leaves through __aexit__, which releases the
\* lock whether the body ended normally (ok) or through the except branch.
ReleasesLockOnSuccessOnly(ok) == ok
ReleasesLock(ok) == TRUE

\* A task woken from the lock's queue sets _locked before it goes on.
LockedAfterWakeNot == FALSE
LockedAfterWake == TRUE

\* ------------------------------------------------------------ GET /report

\* Body and status code chosen by report(): the cached value if there is
\* one, else "generating" if report_lock.locked(), else "started".
Ready(cached) == [status |-> "ready", code |-> 200, report |-> cached]
Generating == [status |-> "generating", code |-> 202, report |-> NoneVal]
Started == [status |-> "started", code |-> 202, report |-> NoneVal]

ReportResponseNoCache(cached, isLocked) ==
  IF isLocked THEN Generating ELSE Started
ReportResponseWaits(cached, isLocked) ==
  IF cached # NoneVal THEN Ready(cached)
  ELSE IF isLocked THEN Pending
  ELSE Started
ReportResponseNoLock(cached, isLocked) ==
  IF cached # NoneVal THEN Ready(cached) ELSE Started
ReportResponse(cached, isLocked) ==
  IF cached # NoneVal THEN Ready(cached)
  ELSE IF isLocked THEN Generating
  ELSE Started

\* A request reaches the handler: its dependencies (bearer token, database
\* session) were resolved off the loop, and the rest of the request, which
\* runs report() without suspending, is queued on the loop.
Queued(r) ==
  /\ arrived' = [arrived EXCEPT ![r] =
        IF \A q \in 1..(r - 1) : resp[q].status # "pending"
        THEN "seq" ELSE "burst"]
  /\ ready' = Append(ready, Req(r))
Arrive(r) ==
  /\ arrived[r] = "no"
  /\ IF r = 1 THEN TRUE ELSE arrived[r - 1] # "no"
  /\ Queued(r)
  /\ UNCHANGED <<now, ticks, cache_ttl, redis_client, outage,
                 store, locked, waiters, pc, result, resp, handled, writes>>
  /\ UNCHANGED <<cop, sessVars, admVars>>

\* report(): one step of the loop, there is no await in its body.
\* up: whether the Redis server answers the call made in this step.
HandleReport(r, up) ==
  /\ ready # <<>> /\ Head(ready) = Req(r)
  /\ LET cached == CacheGet(store, ReportKey, now, redis_client, up)
         body == ReportResponse(cached, locked)
         sched == body.status = "started"
     IN /\ resp' = [resp EXCEPT ![r] = body]
        /\ handled' = [handled EXCEPT ![r] =
               [at |-> now, seen |-> Len(writes), scheduled |-> sched,
                lockHeld |-> locked, cached |-> cached]]
        \* asyncio.create_task(generate_report_background())
        /\ pc' = IF sched THEN [pc EXCEPT ![r] = "scheduled"] ELSE pc
        /\ ready' = IF sched THEN Append(Tail(ready), Task(r)) ELSE Tail(ready)
  /\ outage' = (outage \/ (redis_client = "client" /\ ~up))
  /\ UNCHANGED <<now, ticks, cache_ttl, redis_client, store, locked, waiters,
                 result, arrived, writes>>
  /\ UNCHANGED <<cop, sessVars, admVars>>

\* ------------------------------------------- generate_report_background

\* First step of the task: `async with report_lock`, then the call of
\* run_in_executor, at whose await the task suspends.
BgStart(t) ==
  /\ ready # <<>> /\ Head(ready) = Task(t)
  /\ pc[t] = "scheduled"
  /\ IF LockFastPath(locked, waiters)
     THEN /\ locked' = TRUE
          /\ pc' = [pc EXCEPT ![t] = "running"]
          /\ UNCHANGED waiters
     ELSE /\ waiters' = Append(waiters, t)
          /\ pc' = [pc EXCEPT ![t] = "waiting"]
          /\ UNCHANGED locked
  /\ ready' = Tail(ready)
  /\ UNCHANGED <<now, ticks, cache_ttl, redis_client, outage,
                 store, result, arrived, resp, handled, writes>>
  /\ UNCHANGED <<cop, sessVars, admVars>>

\* A task that queued for the lock was woken by its release.
BgWake(t) ==
  /\ ready # <<>> /\ Head(ready) = Task(t)
  /\ pc[t] = "woken"
  /\ waiters' = SelectSeq(waiters, LAMBDA x : x # t)
  /\ locked' = LockedAfterWake
  /\ pc' = [pc EXCEPT ![t] = "running"]
  /\ ready' = Tail(ready)
  /\ UNCHANGED <<now, ticks, cache_ttl, redis_client, outage,
                 store, result, arrived, resp, handled, writes>>
  /\ UNCHANGED <<cop, sessVars, admVars>>

Outcomes(t) ==
  {[ok |-> TRUE, data |-> ReportOf(t), message |-> ""]} \cup
  {[ok |-> FALSE, data |-> NoData, message |-> m] : m \in Messages}

\* agent.generate_security_report ends in its executor thread: it returns
\* a report or raises; the future completes and the task is runnable again.
ExecDone(t, res) ==
  /\ pc[t] = "running"
  /\ result' = [result EXCEPT ![t] = res]
  /\ pc' = [pc EXCEPT ![t] = "resumable"]
  /\ ready' = Append(ready, Task(t))
  /\ UNCHANGED <<now, ticks, cache_ttl, redis_client, outage,
                 store, locked, waiters, arrived, resp, handled, writes>>
  /\ UNCHANGED <<cop, sessVars, admVars>>

\* what the task stores, and for how long
ErrorTtl(dflt) == ERROR_TTL
WrittenValueAlwaysReady(res) == ReadyRecord(res.data)
WrittenValue(res) ==
  IF res.ok THEN ReadyRecord(res.data) ELSE ErrorRecord(res.message)
WrittenTtl(res, dflt) == IF res.ok THEN dflt ELSE ErrorTtl(dflt)

\* Rest of the task after the await: the cache write of the try or of the
\* except branch, then the release of the lock, which wakes the first task
\* queued for it.  Nothing in it suspends.
\* up: whether the Redis server answers the call made in this step.
BgFinish(t, up) ==
  /\ ready # <<>> /\ Head(ready) = Task(t)
  /\ pc[t] = "resumable"
  /\ LET res == result[t]
         v == WrittenValue(res)
         ttl == WrittenTtl(res, cache_ttl)
         rel == ReleasesLock(res.ok)
         wake == rel /\ waiters # <<>> /\ pc[Head(waiters)] = "waiting"
     IN /\ store' = CacheSetStore(store, ReportKey, v, ttl, cache_ttl, now,
                                  redis_client, up)
        /\ writes' = Append(writes,
               [task |-> t, value |-> v, ttl |-> EffectiveTtl(ttl, cache_ttl),
                at |-> now,
                ok |-> CacheSetOk(v, ttl, cache_ttl, redis_client, up)])
        /\ locked' = IF rel THEN FALSE ELSE locked
        /\ pc' = IF wake
                 THEN [pc EXCEPT ![t] = "done", ![Head(waiters)] = "woken"]
                 ELSE [pc EXCEPT ![t] = "done"]
        /\ ready' = IF wake THEN Append(Tail(ready), Task(Head(waiters)))
                    ELSE Tail(ready)
  /\ outage' = (outage \/ (redis_client = "client" /\ ~up))
  /\ UNCHANGED <<now, ticks, cache_ttl, redis_client, waiters, result, arrived,
                 resp, handled>>
  /\ UNCHANGED <<cop, sessVars, admVars>>

\* ------------------------------------------------------------ environment

TickSteps == {ERROR_TTL, cache_ttl}

\* Time passes; Redis expires what is due.
Tick(d) ==
  /\ ticks < MaxTicks
  /\ ticks' = ticks + 1
  /\ now' = now + d
  /\ store' = RedisLive(store, now + d)
  /\ UNCHANGED <<cache_ttl, redis_client, outage, locked,
                 waiters, ready, pc, result, arrived, resp, handled, writes>>
  /\ UNCHANGED <<cop, sessVars, admVars>>

Next ==
  \/ \E r \in ReqIds : Arrive(r)
  \/ \E r \in ReqIds, up \in BOOLEAN : HandleReport(r, up)
  \/ \E t \in ReqIds : BgStart(t)
  \/ \E t \in ReqIds : BgWake(t)
  \/ \E t \in ReqIds : \E res \in Outcomes(t) : ExecDone(t, res)
  \/ \E t \in ReqIds, up \in BOOLEAN : BgFinish(t, up)
  \/ \E d \in TickSteps : Tick(d)

Spec == Init /\ [][Next]_vars

\* The loop runs whatever is at the head of its queue, and a computation
\* handed to the executor ends.
LoopStep ==
  \/ \E r \in ReqIds, up \in BOOLEAN : HandleReport(r, up)
  \/ \E t \in ReqIds : BgStart(t)
  \/ \E t \in ReqIds : BgWake(t)
  \/ \E t \in ReqIds, up \in BOOLEAN : BgFinish(t, up)
Terminates == \E t \in ReqIds : \E res \in Outcomes(t) : ExecDone(t, res)

FairSpec == Spec /\ WF_vars(LoopStep) /\ WF_vars(Terminates)
\* the loop keeps running what is ready, whether or not the executor's work
\* ever ends
LoopFairSpec == Spec /\ WF_vars(LoopStep)

\* ================================================================ claims

\* ------------------------------------------- CacheManager, called directly

\* keys as the key generators build them, and KEYS patterns
QueryKeys == {"query:q1"}
SessionKeys == {"session:s1"}
CacheKeys == QueryKeys \cup SessionKeys
Patterns == {"*", "query:*", "session:s1"}
\* values a caller may pass to set
PyValues ==
  {NoneVal, PyStr("a"), PyList(<<PyInt(1)>>), PyTuple(<<PyInt(1)>>),
   PyDict(<<PyInt(1)>>, <<PyStr("a")>>), PySet(<<PyInt(1)>>)}
\* the ttl argument of set: the falsy value (None when the caller leaves
\* it out, 0 when the caller gives it), or a number of seconds
SetTtls == {NoTtl, 60}
\* whether the caller passed a ttl argument: None is only ever the default
TtlArgs == {<<FALSE, NoTtl>>} \cup ({TRUE} \X SetTtls)

\* Redis KEYS: glob match of a pattern against a key
Glob(p, k) ==
  \/ p = "*"
  \/ p = k
  \/ p = "query:*" /\ k \in QueryKeys
  \/ p = "session:*" /\ k \in SessionKeys

\* what a Redis call raises when the backend cannot be reached
CallRaises(up) == IF up THEN "none" ELSE "ConnectionError"
\* what the body of set raises: json.dumps before setex
SetRaises(v, ttl, dflt, up) ==
  IF ~Serializable(v) THEN "TypeError"
  ELSE IF ~up THEN "ConnectionError"
  ELSE IF EffectiveTtl(ttl, dflt) <= 0 THEN "ResponseError"
  ELSE "none"

\* whether set gets as far as redis_client.setex: there is a client and
\* json.dumps returned
ReachesSetex(v, rc) == rc = "client" /\ Serializable(v)

\* `except Exception` catches every exception class
CaughtRedisOnly(e) == e \in {"ConnectionError", "ResponseError"}
Caught(e) == e \in {"ConnectionError", "ResponseError", "TypeError"}
\* the call raises to its caller: never without a client (it returns at
\* once), else only what the handler lets through
EscapesUncaught(rc, e) == rc = "client" /\ e # "none"
Escapes(rc, e) == rc = "client" /\ e # "none" /\ ~Caught(e)

\* CacheManager.delete / exists: bool() of Redis' count
CacheDeleteOk(s, key, t, rc, up) ==
  rc = "client" /\ up /\ key \in DOMAIN RedisLive(s, t)
CacheDeleteStore(s, key, rc, up) ==
  IF rc = "client" /\ up THEN [k \in DOMAIN s \ {key} |-> s[k]] ELSE s
CacheExists(s, key, t, rc, up) ==
  rc = "client" /\ up /\ key \in DOMAIN RedisLive(s, t)

\* CacheManager.clear_pattern: the keys found, deleted, and their number
ClearKeysAll(s, p, t) == DOMAIN RedisLive(s, t)
ClearKeys(s, p, t) == {k \in DOMAIN RedisLive(s, t) : Glob(p, k)}
ClearPatternCount(s, p, t, rc, up) ==
  IF rc = "client" /\ up THEN Cardinality(ClearKeys(s, p, t)) ELSE 0
ClearPatternStore(s, p, t, rc, up) ==
  IF rc = "client" /\ up
  THEN [k \in DOMAIN s \ ClearKeys(s, p, t) |-> s[k]]
  ELSE s

\* a call made at `now`, before its results are filled in
CacheOp(op, key, up) ==
  [NoCacheOp EXCEPT !.op = op, !.key = key, !.at = now, !.up = up]
\* whether the backend failed some call so far
OutageAfter(up) == outage \/ (redis_client = "client" /\ ~up)

GetOp(key, up) ==
  /\ cop' = [CacheOp("get", key, up) EXCEPT
               !.retv = CacheGet(store, key, now, redis_client, up),
               !.raised = Escapes(redis_client, CallRaises(up))]
  /\ outage' = OutageAfter(up)
  /\ UNCHANGED <<now, ticks, cache_ttl, redis_client, store>>
  /\ UNCHANGED <<reportVars, sessVars, admVars>>

SetOp(key, v, given, ttl, up) ==
  /\ cop' = [CacheOp("set", key, up) EXCEPT
               !.val = v, !.ttl = ttl, !.given = given,
               !.setex = ReachesSetex(v, redis_client),
               !.expiry = IF ReachesSetex(v, redis_client)
                          THEN EffectiveTtl(ttl, cache_ttl) ELSE 0,
               !.retb = CacheSetOk(v, ttl, cache_ttl, redis_client, up),
               !.raised = Escapes(redis_client,
                                  SetRaises(v, ttl, cache_ttl, up))]
  /\ store' = CacheSetStore(store, key, v, ttl, cache_ttl, now,
                            redis_client, up)
  /\ outage' = OutageAfter(up)
  /\ UNCHANGED <<now, ticks, cache_ttl, redis_client>>
  /\ UNCHANGED <<reportVars, sessVars, admVars>>

DeleteOp(key, up) ==
  /\ cop' = [CacheOp("delete", key, up) EXCEPT
               !.retb = CacheDeleteOk(store, key, now, redis_client, up),
               !.raised = Escapes(redis_client, CallRaises(up))]
  /\ store' = CacheDeleteStore(store, key, redis_client, up)
  /\ outage' = OutageAfter(up)
  /\ UNCHANGED <<now, ticks, cache_ttl, redis_client>>
  /\ UNCHANGED <<reportVars, sessVars, admVars>>

ExistsOp(key, up) ==
  /\ cop' = [CacheOp("exists", key, up) EXCEPT
               !.retb = CacheExists(store, key, now, redis_client, up),
               !.raised = Escapes(redis_client, CallRaises(up))]
  /\ outage' = OutageAfter(up)
  /\ UNCHANGED <<now, ticks, cache_ttl, redis_client, store>>
  /\ UNCHANGED <<reportVars, sessVars, admVars>>

ClearPatternOp(p, up) ==
  /\ cop' = [CacheOp("clear_pattern", p, up) EXCEPT
               !.retn = ClearPatternCount(store, p, now, redis_client, up),
               !.raised = Escapes(redis_client, CallRaises(up))]
  /\ store' = ClearPatternStore(store, p, now, redis_client, up)
  /\ outage' = OutageAfter(up)
  /\ UNCHANGED <<now, ticks, cache_ttl, redis_client>>
  /\ UNCHANGED <<reportVars, sessVars, admVars>>

CacheNext ==
  \/ \E k \in CacheKeys, up \in BOOLEAN : GetOp(k, up)
  \/ \E k \in CacheKeys, v \in PyValues, a \in TtlArgs, up \in BOOLEAN :
       SetOp(k, v, a[1], a[2], up)
  \/ \E k \in CacheKeys, up \in BOOLEAN : DeleteOp(k, up)
  \/ \E k \in CacheKeys, up \in BOOLEAN : ExistsOp(k, up)
  \/ \E p \in Patterns, up \in BOOLEAN : ClearPatternOp(p, up)
  \/ \E d \in TickSteps : Tick(d)

\* the cache under direct calls, from the same start as the service
CacheSpec == Init /\ [][CacheNext]_vars

\* ------------------------------------------------- cache key generators

\* the characters of the texts used below, with their code points
CharCode ==
  "0" :> 48 @@ "1" :> 49 @@ "2" :> 50 @@ ":" :> 58 @@ "_" :> 95 @@
  "a" :> 97 @@ "c" :> 99 @@ "e" :> 101 @@ "i" :> 105 @@ "n" :> 110 @@
  "o" :> 111 @@ "p" :> 112 @@ "q" :> 113 @@ "r" :> 114 @@ "s" :> 115 @@
  "t" :> 116 @@ "u" :> 117 @@ "y" :> 121
HexDigits == <<"0", "1", "2", "3", "4", "5", "6", "7", "8", "9",
               "a", "b", "c", "d", "e", "f">>
\* hashlib.md5(text.encode()).hexdigest(): a fixed number of hex digits
\* computed from every character and its place; here two digits, so that
\* different texts may share a digest
RECURSIVE Mix(_, _)
Mix(text, i) ==
  IF i > Len(text) THEN 0
  ELSE (i * CharCode[SubSeq(text, i, i)] + Mix(text, i + 1)) % Len(HexDigits)^2
Md5(text) ==
  HexDigits[(Mix(text, 1) \div Len(HexDigits)) + 1] \o
    HexDigits[(Mix(text, 1) % Len(HexDigits)) + 1]

\* question[:100]
Prefix(text, n) == SubSeq(text, 1, IF Len(text) < n THEN Len(text) ELSE n)

get_query_cache_key(question, user_id) ==
  "query:" \o Md5(ToString(user_id) \o ":" \o Prefix(question, QUESTION_PREFIX))
get_session_cache_key_bare(session_id) == session_id
get_session_cache_key(session_id) == "session:" \o session_id
get_report_cache_key == ReportKey

\* arguments of the generators: user ids, questions, session ids, among
\* them texts that look like keys of another namespace
UserIds == {1, 12}
Questions == {"", "a", "2:a"}
SessionIds == {"", "a", "security_report", "query:" \o Md5("1:a")}

\* a call of a generator, kept with the call made before it
KeyCall(gen, args, key) ==
  [NoCacheOp EXCEPT !.op = gen, !.key = key, !.val = args,
                    !.retv = [op |-> cop.op, key |-> cop.key,
                              val |-> cop.val]]
KeyFrame == <<now, ticks, cache_ttl, redis_client, outage, store,
              reportVars, sessVars, admVars>>

QueryKeyOp(question, user_id) ==
  /\ cop' = KeyCall("get_query_cache_key", <<question, user_id>>,
                    get_query_cache_key(question, user_id))
  /\ UNCHANGED KeyFrame
SessionKeyOp(session_id) ==
  /\ cop' = KeyCall("get_session_cache_key", <<session_id>>,
                    get_session_cache_key(session_id))
  /\ UNCHANGED KeyFrame
ReportKeyOp ==
  /\ cop' = KeyCall("get_report_cache_key", <<>>, get_report_cache_key)
  /\ UNCHANGED KeyFrame

KeyInit == CacheQuiet /\ ReportIdle /\ CacheOpIdle /\ SessIdle /\ AdmIdle
KeyNext ==
  \/ \E question \in Questions, user_id \in UserIds :
       QueryKeyOp(question, user_id)
  \/ \E session_id \in SessionIds : SessionKeyOp(session_id)
  \/ ReportKeyOp

\* the key generators under any sequence of calls
KeySpec == KeyInit /\ [][KeyNext]_vars

\* ---------------------------------------------------------- SessionManager

\* config.session_lifetime: the default, and a short one
Lifetimes == {2, SESSION_LIFETIME}
\* request.client.host
Peers == {"10.0.0.1", "10.0.0.2"}
\* ids a caller can present: a token issued so far, or a forged one
Presentable == (1..issued) \cup {ForgedId}
\* the shared variables the session registry never touches
sessFrame == <<cache_ttl, redis_client, outage, store, cop, reportVars,
               admVars>>

NewSession(peer, t) ==
  [client_id |-> peer, created_at |-> t, last_accessed |-> t]
\* del d[k]: KeyError when k is not a key
DictDel(reg, id) ==
  [raised |-> id \notin DOMAIN reg,
   reg |-> [k \in DOMAIN reg \ {id} |-> reg[k]]]

\* current_time - session['created_at'] > self.lifetime
ExpiredSliding(s, t, life) == t - s.last_accessed > life
ExpiredAtLifetime(s, t, life) == t - s.created_at >= life
Expired(s, t, life) == t - s.created_at > life

\* create_session: the registry with the new session under the new token
CreateRegSweeping(reg, id, peer, t) ==
  [k \in {x \in DOMAIN reg : ~(t - reg[x].created_at > lifetime)} \cup {id} |->
     IF k = id THEN NewSession(peer, t) ELSE reg[k]]
CreateReg(reg, id, peer, t) ==
  [k \in DOMAIN reg \cup {id} |->
     IF k = id THEN NewSession(peer, t) ELSE reg[k]]

\* validate_session: its result
ValidateOk(reg, id, t, life) ==
  IF id \notin DOMAIN reg THEN FALSE ELSE ~Expired(reg[id], t, life)
\* validate_session: the registry it leaves
ValidateRegKeepExpired(reg, id, t, life) ==
  IF id \notin DOMAIN reg THEN reg
  ELSE IF Expired(reg[id], t, life) THEN reg
  ELSE [reg EXCEPT ![id].last_accessed = t]
ValidateRegRenewing(reg, id, t, life) ==
  IF id \notin DOMAIN reg THEN reg
  ELSE IF Expired(reg[id], t, life) THEN DictDel(reg, id).reg
  ELSE [reg EXCEPT ![id].last_accessed = t, ![id].created_at = t]
ValidateReg(reg, id, t, life) ==
  IF id \notin DOMAIN reg THEN reg
  ELSE IF Expired(reg[id], t, life) THEN DictDel(reg, id).reg
  ELSE [reg EXCEPT ![id].last_accessed = t]

\* end_session: delete only a known id
EndSessionUnguarded(reg, id) == DictDel(reg, id)
EndSession(reg, id) ==
  IF id \in DOMAIN reg THEN DictDel(reg, id)
  ELSE [raised |-> FALSE, reg |-> reg]

\* a SessionManager call made at `now`, with the session it found
SessOp(op, id, ok, raised) ==
  [op |-> op, id |-> id, ok |-> ok, at |-> now, raised |-> raised,
   was |-> IF id \in DOMAIN sessions THEN sessions[id] ELSE NoSession]

CreateSessionOp(peer) ==
  /\ issued < MaxSess
  /\ issued' = issued + 1
  /\ sessions' = CreateReg(sessions, issued + 1, peer, now)
  /\ sop' = SessOp("create", issued + 1, TRUE, FALSE)
  /\ UNCHANGED <<now, ticks, lifetime, query>>
  /\ UNCHANGED sessFrame

ValidateSessionOp(id) ==
  /\ sessions' = ValidateReg(sessions, id, now, lifetime)
  /\ sop' = SessOp("validate", id, ValidateOk(sessions, id, now, lifetime),
                   FALSE)
  /\ UNCHANGED <<now, ticks, lifetime, issued, query>>
  /\ UNCHANGED sessFrame

EndSessionOp(id) ==
  /\ sessions' = EndSession(sessions, id).reg
  /\ sop' = SessOp("end", id, FALSE, EndSession(sessions, id).raised)
  /\ UNCHANGED <<now, ticks, lifetime, issued, query>>
  /\ UNCHANGED sessFrame

\* ------------------------------------------------------------ POST /query

\* how the processing after the session check ends: the question fails
\* validate_query, the conversation is not the user's, an exception is
\* raised before the answer is stored, or the answer is ready
QueryOutcomes == {"invalid", "notfound", "error", "ok"}
StatusOf(outcome) ==
  CASE outcome = "invalid" -> 400
    [] outcome = "notfound" -> 404
    [] outcome = "error" -> 500
    [] OTHER -> 200

\* if session_id and not session_manager.validate_session(session_id)
SessionRejectedNever(cookie, ok) == FALSE
SessionRejected(cookie, ok) == cookie # NoCookie /\ ~ok

\* the handler up to `await request.json()`: the session check
SessionCheckOwned(r, cookie, peer) ==
  LET ok == /\ ValidateOk(sessions, cookie, now, lifetime)
            /\ sessions[cookie].client_id = peer
      rejected == SessionRejected(cookie, ok)
  IN /\ IF cookie = NoCookie
        THEN UNCHANGED <<sessions, sop>>
        ELSE /\ sessions' = ValidateReg(sessions, cookie, now, lifetime)
             /\ sop' = SessOp("validate", cookie, ok, FALSE)
     /\ query' = [query EXCEPT ![r] =
          [pc |-> IF rejected THEN "done" ELSE "reading",
           cookie |-> cookie, peer |-> peer,
           status |-> IF rejected THEN 401 ELSE 0,
           setCookie |-> NoCookie]]
SessionCheck(r, cookie, peer) ==
  LET ok == ValidateOk(sessions, cookie, now, lifetime)
      rejected == SessionRejected(cookie, ok)
  IN /\ IF cookie = NoCookie
        THEN UNCHANGED <<sessions, sop>>
        ELSE /\ sessions' = ValidateReg(sessions, cookie, now, lifetime)
             /\ sop' = SessOp("validate", cookie, ok, FALSE)
     /\ query' = [query EXCEPT ![r] =
          [pc |-> IF rejected THEN "done" ELSE "reading",
           cookie |-> cookie, peer |-> peer,
           status |-> IF rejected THEN 401 ELSE 0,
           setCookie |-> NoCookie]]
QueryBegin(r, cookie, peer) ==
  /\ query[r].pc = "idle"
  /\ IF r = 1 THEN TRUE ELSE query[r - 1].pc # "idle"
  /\ SessionCheck(r, cookie, peer)
  /\ UNCHANGED <<now, ticks, lifetime, issued>>
  /\ UNCHANGED sessFrame

\* the handler after the body was read: validation, the conversation, the
\* agent and the database, then the session and the cookie
QueryEnd(r, outcome) ==
  /\ query[r].pc = "reading"
  /\ LET fresh == outcome = "ok" /\ query[r].cookie = NoCookie
     IN /\ fresh => issued < MaxSess
        /\ IF fresh
           THEN /\ issued' = issued + 1
                /\ sessions' = CreateReg(sessions, issued + 1,
                                         query[r].peer, now)
                /\ sop' = SessOp("create", issued + 1, TRUE, FALSE)
           ELSE UNCHANGED <<issued, sessions, sop>>
        /\ query' = [query EXCEPT ![r] =
             [@ EXCEPT !.pc = "done", !.status = StatusOf(outcome),
                       !.setCookie =
                          IF outcome # "ok" THEN NoCookie
                          ELSE IF fresh THEN issued + 1
                          ELSE query[r].cookie]]
  /\ UNCHANGED <<now, ticks, lifetime>>
  /\ UNCHANGED sessFrame

\* time passes for the registry
SessTickSteps == {1, lifetime}
SessTick(d) ==
  /\ ticks < MaxSessTicks
  /\ ticks' = ticks + 1
  /\ now' = now + d
  /\ UNCHANGED sessVars
  /\ UNCHANGED sessFrame

SessInit ==
  /\ CacheQuiet /\ ReportIdle /\ CacheOpIdle /\ AdmIdle
  /\ lifetime \in Lifetimes
  /\ SessEmpty

SessNext ==
  \/ \E peer \in Peers : CreateSessionOp(peer)
  \/ \E id \in Presentable : ValidateSessionOp(id)
  \/ \E id \in Presentable : EndSessionOp(id)
  \/ \E d \in SessTickSteps : SessTick(d)

\* the session registry under direct calls
SessSpec == SessInit /\ [][SessNext]_vars

QueryNext ==
  \/ \E r \in QueryIds, peer \in Peers :
       \E cookie \in Presentable \cup {NoCookie} : QueryBegin(r, cookie, peer)
  \/ \E r \in QueryIds, outcome \in QueryOutcomes : QueryEnd(r, outcome)
  \/ \E d \in SessTickSteps : SessTick(d)

\* the session registry under /query requests
QuerySpec == SessInit /\ [][QueryNext]_vars

\* ------------------------------------------------------ SecurityMiddleware

\* SecurityConfig.ALLOWED_HOSTS, each name as its text pieces
ALLOWED_HOSTS == {<<"localhost">>, <<"127.0.0.1">>, <<"testserver">>}
\* config.max_request_size: a small ceiling, and the default
Ceilings == {12, MAX_REQUEST_SIZE}

\* a header that was sent, its text cut at the characters that matter here
Header(text) == [present |-> TRUE, text |-> text]
\* Host headers: names with and without a port, an IPv6 literal, none
HostHeaders ==
  {NoHeader,
   Header(<<"localhost">>), Header(<<"localhost", ":", "8000">>),
   Header(<<"127.0.0.1", ":", "80">>), Header(<<"testserver">>),
   Header(<<"evil.com">>), Header(<<"evil.com", ":", "80">>),
   Header(<<"[", ":", ":", "1", "]", ":", "80">>)}
\* Content-Length headers: none, digits around both ceilings, not a number
LengthHeaders ==
  {NoHeader,
   Header(<<"0">>), Header(<<"1", "1">>), Header(<<"1", "2">>),
   Header(<<"1", "3">>),
   Header(<<"1", "0", "4", "8", "5", "7", "6">>),
   Header(<<"1", "0", "4", "8", "5", "7", "7">>),
   Header(<<"a", "b", "c">>)}
\* what the rest of the application does with an admitted request: it
\* answers (200, or an error response of its own), or an exception escapes
Downstream == {"ok", "denied", "raises"}
DownStatus(down) == IF down = "ok" THEN 200 ELSE 401

\* request.headers.get("host", "").split(":")[0]
FirstColon(text) ==
  LET at == {i \in 1..Len(text) : text[i] = ":"}
  IN IF at = {} THEN Len(text) + 1
     ELSE CHOOSE i \in at : \A j \in at : i <= j
HostWhole(h) == h.text
HostBeforeColon(h) == SubSeq(h.text, 1, FirstColon(h.text) - 1)

\* config.is_allowed_host
IsAllowedHostUnlessRefused(host) ==
  host \in ALLOWED_HOSTS /\ ~(adm.result = "HTTPException" /\ adm.status = 400)
IsAllowedHost(host) == host \in ALLOWED_HOSTS

\* int(): the number a decimal text denotes; ValueError on anything else
DigitValue ==
  ("0" :> 0) @@ ("1" :> 1) @@ ("2" :> 2) @@ ("3" :> 3) @@ ("4" :> 4) @@
  ("5" :> 5) @@ ("6" :> 6) @@ ("7" :> 7) @@ ("8" :> 8) @@ ("9" :> 9)
IsDecimal(text) ==
  Len(text) > 0 /\ \A i \in 1..Len(text) : text[i] \in DOMAIN DigitValue
RECURSIVE ParseInt(_)
ParseInt(text) ==
  IF Len(text) = 0 THEN 0
  ELSE 10 * ParseInt(SubSeq(text, 1, Len(text) - 1))
       + DigitValue[text[Len(text)]]

\* request.headers.get("content-length", 0) handed to int()
LengthRaises(h) == h.present /\ ~IsDecimal(h.text)
LengthValue(h) == IF h.present THEN ParseInt(h.text) ELSE 0
\* int(content_length) > self.config.max_request_size
TooLargeFromCeiling(n, ceiling) == n >= ceiling
TooLarge(n, ceiling) == n > ceiling

\* what the try block of dispatch raises, if anything
HttpException(status, detail) ==
  [class |-> "HTTPException", status |-> status, detail |-> detail]
Unexpected(class) == [class |-> class, status |-> 0, detail |-> ""]
NoException == Unexpected("none")
\* the checks made before call_next
CheckRaisesSizeFirst(host, clen, ceiling) ==
  IF LengthRaises(clen) THEN Unexpected("ValueError")
  ELSE IF TooLarge(LengthValue(clen), ceiling)
  THEN HttpException(413, "Request too large")
  ELSE IF ~IsAllowedHost(HostBeforeColon(host))
  THEN HttpException(400, "Invalid host header")
  ELSE NoException
CheckRaises(host, clen, ceiling) ==
  IF ~IsAllowedHost(HostBeforeColon(host))
  THEN HttpException(400, "Invalid host header")
  ELSE IF LengthRaises(clen) THEN Unexpected("ValueError")
  ELSE IF TooLarge(LengthValue(clen), ceiling)
  THEN HttpException(413, "Request too large")
  ELSE NoException
\* the whole try block: the checks, then call_next
TryRaises(host, clen, down, ceiling) ==
  IF CheckRaises(host, clen, ceiling) # NoException
  THEN CheckRaises(host, clen, ceiling)
  ELSE IF down = "raises" THEN Unexpected("RuntimeError")
  ELSE NoException

\* except HTTPException: raise / except Exception: raise HTTPException(500)
ExceptAllAsInternal(exc) == HttpException(500, "Internal server error")
Except(exc) ==
  IF exc.class = "HTTPException" THEN exc
  ELSE HttpException(500, "Internal server error")

\* response.headers.update(self.config.get_security_headers(self.debug))
\* runs on the response call_next returned
Secured(returned) == returned

\* SecurityMiddleware.dispatch, from the request to what it returns or raises
DispatchResult(host, clen, down, ceiling) ==
  LET exc == TryRaises(host, clen, down, ceiling)
      out == Except(exc)
      passed == CheckRaises(host, clen, ceiling) = NoException
  IN IF exc = NoException
     THEN [host |-> host, clen |-> clen, down |-> down,
           result |-> "response", status |-> DownStatus(down),
           detail |-> "", passed |-> passed, secured |-> Secured(TRUE)]
     ELSE [host |-> host, clen |-> clen, down |-> down,
           result |-> out.class, status |-> out.status,
           detail |-> out.detail, passed |-> passed,
           secured |-> Secured(FALSE)]

\* the admission part of an outcome: let through to call_next, or the
\* rejection raised before it
Admission(a) ==
  IF a.passed
  THEN [NoAdm EXCEPT !.host = a.host, !.clen = a.clen, !.passed = TRUE]
  ELSE [a EXCEPT !.down = "none"]

\* the requests whose first occurrence is remembered in adm0
Remembered ==
  {Header(<<"localhost">>), Header(<<"evil.com", ":", "80">>)}
    \X {NoHeader, Header(<<"1", "3">>), Header(<<"a", "b", "c">>)}

Dispatch(host, clen, down) ==
  /\ adm' = DispatchResult(host, clen, down, max_request_size)
  /\ adm0' = IF adm0 = NoAdm /\ <<host, clen>> \in Remembered
             THEN adm'
             ELSE adm0
  /\ UNCHANGED max_request_size
  /\ UNCHANGED <<now, ticks, cache_ttl, redis_client, outage, store, cop>>
  /\ UNCHANGED <<reportVars, sessVars>>

AdmInit ==
  /\ CacheQuiet /\ ReportIdle /\ CacheOpIdle /\ SessIdle
  /\ max_request_size \in Ceilings
  /\ adm = NoAdm
  /\ adm0 = NoAdm

AdmNext ==
  \E host \in HostHeaders, clen \in LengthHeaders, down \in Downstream :
    Dispatch(host, clen, down)

\* the middleware under any sequence of requests
AdmSpec == AdmInit /\ [][AdmNext]_vars

\* ------------------------------- requests through the middleware stack

\* The middleware is the outermost handler of every route (add_middleware
\* in web_new.py): a request reaches the route's handler only through
\* `await call_next(request)`, which dispatch reaches only if neither check
\* raised.
CallsNextBeforeChecks(host, clen, ceiling) == TRUE
CallsNext(host, clen, ceiling) ==
  CheckRaises(host, clen, ceiling) = NoException

\* headers of the requests sent through the stack: an allowed and a
\* refused host, no body and a body over the default ceiling
GateHosts == {Header(<<"localhost">>), Header(<<"evil.com", ":", "80">>)}
GateLengths == {NoHeader, Header(<<"1", "0", "4", "8", "5", "7", "7">>)}

\* the cookie of a request: none, or the first session id issued
GateCookies == {NoCookie, 1}
GatePeer == "10.0.0.1"
\* the /report requests sent through the stack
GateReqs == 1..(MaxReq - 1)

\* POST /query through the middleware: the checks, then the handler up to
\* its first await if call_next is reached, else the refusal
GateQuery(r, cookie, peer, host, clen) ==
  /\ query[r].pc = "idle"
  /\ IF r = 1 THEN TRUE ELSE query[r - 1].pc # "idle"
  /\ adm' = Admission(DispatchResult(host, clen, "ok", max_request_size))
  /\ IF CallsNext(host, clen, max_request_size)
     THEN SessionCheck(r, cookie, peer)
     ELSE /\ query' = [query EXCEPT ![r] =
               [pc |-> "done", cookie |-> cookie, peer |-> peer,
                status |-> adm'.status, setCookie |-> NoCookie]]
          /\ UNCHANGED <<sessions, sop>>
  /\ UNCHANGED <<now, ticks, lifetime, issued, max_request_size, adm0>>
  /\ UNCHANGED <<cache_ttl, redis_client, outage, store, cop, reportVars>>

\* GET /report through the middleware: the checks, then the request goes
\* on to the handler if call_next is reached
GateReport(r, host, clen) ==
  /\ arrived[r] = "no"
  /\ IF r = 1 THEN TRUE ELSE arrived[r - 1] # "no"
  /\ adm' = Admission(DispatchResult(host, clen, "ok", max_request_size))
  /\ IF CallsNext(host, clen, max_request_size)
     THEN Queued(r)
     ELSE UNCHANGED <<arrived, ready>>
  /\ UNCHANGED <<now, ticks, cache_ttl, redis_client, outage,
                 store, locked, waiters, pc, result, resp, handled, writes>>
  /\ UNCHANGED <<cop, sessVars, max_request_size, adm0>>

\* the service as started with its defaults and a reachable cache
GateInit ==
  /\ now = 0
  /\ ticks = 0
  /\ cache_ttl = DEFAULT_CACHE_TTL
  /\ redis_client = "client"
  /\ outage = FALSE
  /\ store = <<>>
  /\ ReportIdle /\ CacheOpIdle /\ SessIdle /\ AdmIdle

GateNext ==
  \/ \E r \in QueryIds, host \in GateHosts, clen \in GateLengths :
       \E cookie \in GateCookies : GateQuery(r, cookie, GatePeer, host, clen)
  \/ \E r \in QueryIds : QueryEnd(r, "ok")
  \/ \E r \in GateReqs, host \in GateHosts, clen \in GateLengths :
       GateReport(r, host, clen)
  \/ \E r \in GateReqs : HandleReport(r, TRUE)
  \/ \E t \in GateReqs : BgStart(t)
  \/ \E t \in GateReqs : BgWake(t)
  \/ \E t \in GateReqs : \E res \in Outcomes(t) : ExecDone(t, res)
  \/ \E t \in GateReqs : BgFinish(t, TRUE)
  \/ \E d \in TickSteps : Tick(d)

\* the routes behind the middleware
GateSpec == GateInit /\ [][GateNext]_vars

\* ------------------------------------------------------ derived history

Answered == {r \in ReqIds : resp[r].status # "pending"}
StartedReqs == {r \in ReqIds : resp[r].status = "started"}
\* tasks inside `async with report_lock`: computing, or computed and not
\* yet resumed to write the result
InCompute == {t \in ReqIds : pc[t] \in {"running", "resumable"}}
\* tasks whose computation began
Executed == {t \in ReqIds : pc[t] \in {"running", "resumable", "done"}}
Created == {t \in ReqIds : pc[t] # "none"}
Finished == {t \in ReqIds : pc[t] \in {"resumable", "done"}}
ReadyWrites == {i \in DOMAIN writes : writes[i].value.status = "success"}
ErrorWrites == {i \in DOMAIN writes :
                  writes[i].value.status = "error" /\ writes[i].ok}
Expiry(i) == writes[i].at + writes[i].ttl

\* the cache answered every call made so far
Reachable == redis_client = "client" /\ ~outage
\* every request so far was sent after the answer to the one before it
Sequential == \A r \in ReqIds : arrived[r] \in {"no", "seq"}
NoFailure == \A t \in Finished : result[t].ok

\* C1: when report requests are issued back-to-back with no cached record
\* (no time passes, the cache answers every call), exactly one computation
\* executes, exactly one request is answered `started`, the others
\* `generating` (or `ready` once the record is there), and at most one
\* ready record is written.
C1_SingleFlightBurst ==
  (Reachable /\ now = 0) =>
    /\ Cardinality(StartedReqs) <= 1
    /\ Cardinality(Executed) <= 1
    /\ Cardinality(ReadyWrites) <= 1
    /\ (Answered # {} => Cardinality(StartedReqs) = 1)

\* C2: at most one report computation is in its running phase in every
\* reachable state.
C2_AtMostOneRunning == Cardinality(InCompute) <= 1

C2_Witness ==
  \E t, u \in ReqIds : pc[t] = "running" /\ pc[u] = "waiting"

\* C3: whenever a computation is running the lock is held: no computation
\* executes while the lock is free.
C3_RunningHoldsLock == (InCompute # {}) => locked

C3_Witness ==
  \E t, u \in ReqIds :
    /\ t # u
    /\ pc[t] = "done" /\ pc[u] = "running"
    /\ resp[u].status = "started" /\ handled[u].seen = 0
    /\ locked /\ waiters = <<>>

\* C4: every computation that ends (success, failure, failed cache write)
\* leaves the lock released: given that computations terminate and the loop
\* keeps running, a held lock is always eventually free.
C4_LockEventuallyFree == locked ~> ~locked

C4_Witness ==
  /\ ~locked
  /\ redis_client = "client"
  /\ \E i \in DOMAIN writes :
       /\ writes[i].value.status = "error"
       /\ ~writes[i].ok
       /\ pc[writes[i].task] = "done"

\* C5: a request that finds an unexpired record under the report key
\* answers with that record, whoever triggered the computation that wrote
\* it, schedules no task and leaves the lock and the cache unchanged.
C5_HitStep(r) ==
  LET live == ReportKey \in DOMAIN store /\ store[ReportKey].expiry > now
      found == handled'[r].cached # NoneVal
  IN /\ (live /\ redis_client = "client" /\ ~outage') => found
     /\ found =>
          /\ live
          /\ handled'[r].cached = JsonLoads(store[ReportKey].value)
          /\ resp'[r] = Ready(handled'[r].cached)
          /\ pc' = pc
          /\ locked' = locked
          /\ waiters' = waiters
          /\ store' = store
          /\ writes' = writes
          /\ ready' = Tail(ready)

C5_CacheHitHasNoEffect ==
  [][\A r \in ReqIds :
       (resp[r].status = "pending" /\ resp'[r].status # "pending")
         => C5_HitStep(r)]_vars

C5_Witness ==
  \E r \in ReqIds, i \in DOMAIN writes :
    /\ resp[r].status = "ready"
    /\ resp[r].report = writes[i].value
    /\ writes[i].task # r
    /\ locked

\* C6: with a reachable cache and computations that succeed, one client
\* polling within the standard TTL triggers the computation exactly once,
\* and every poll after the record was written gets the same cached payload.
NothingExpired == \A i \in DOMAIN writes : now < Expiry(i)

C6_PollOnce ==
  (Reachable /\ Sequential /\ NoFailure /\ NothingExpired) =>
    /\ Cardinality(Created) = (IF Answered # {} THEN 1 ELSE 0)
    /\ Cardinality(StartedReqs) = Cardinality(Created)
    /\ \A r \in Answered :
         handled[r].seen >= 1 => resp[r] = Ready(writes[1].value)

C6_Witness ==
  /\ Reachable /\ Sequential /\ NoFailure /\ NothingExpired
  /\ now > 0
  /\ Cardinality({r \in Answered : resp[r].status = "ready"}) >= 2

\* C7: after a failed computation every request issued before the error
\* record's TTL expires returns the cached error and starts no computation;
\* the first request after the expiry, with the lock free, starts a fresh
\* computation.
C7_AfterExpiry(r, i) ==
  handled[r].seen >= i /\ handled[r].at >= Expiry(i) /\ ~handled[r].lockHeld

C7_ErrorCachedUntilExpiry ==
  Reachable =>
    \A r \in Answered, i \in ErrorWrites :
      /\ (handled[r].seen >= i /\ handled[r].at < Expiry(i)) =>
           (resp[r].report = writes[i].value /\ resp[r].status # "started")
      /\ (C7_AfterExpiry(r, i) /\ \A q \in 1..(r - 1) : ~C7_AfterExpiry(q, i))
           => resp[r].status = "started"

\* C8: a request that finds a cached error record answers
\* {"status": "error", "message": <stored message>}; the body
\* {"status": "ready", "report": ...} is returned for a ready record only.
C8_ErrorBody ==
  \A r \in Answered :
    /\ handled[r].cached.status = "error" =>
         (resp[r].status = "error" /\ "message" \in DOMAIN resp[r]
            /\ resp[r].message = handled[r].cached.message)
    /\ resp[r].status = "ready" => resp[r].report.status = "success"

\* C9: for every configured standard TTL (any positive integer) the TTL of
\* an error record is strictly shorter than the TTL of a ready record.
C9_ErrorTtlShorter ==
  \A i \in DOMAIN writes :
    writes[i].value.status = "error" =>
      writes[i].ttl <
        EffectiveTtl(WrittenTtl([ok |-> TRUE, data |-> NoData, message |-> ""],
                                cache_ttl), cache_ttl)

\* C10: with the cache store disabled and computations that succeed, a
\* client that keeps polling eventually receives `ready` with the report:
\* when all its polls are answered, and polls were made after a computation
\* had completed, one of the answers is `ready`.
C10_DisabledCacheReady ==
  (/\ redis_client = "None"
   /\ Sequential /\ NoFailure
   /\ Answered = ReqIds
   /\ \E r \in ReqIds : handled[r].seen >= 1)
    => \E r \in ReqIds : resp[r].status = "ready"


\* ------------------------------------------------- claims: the cache store

\* a direct call was made while there is no client, or it could not reach
\* the backend
Degraded == cop.op # "none" /\ (redis_client = "None" \/ ~cop.up)

\* C11: with the cache disabled (no client) or unreachable (the call
\* raises), whatever was done before, get returns a miss, set, delete and
\* exists return false, clear_pattern returns 0, and none of them raises to
\* the caller.
C11_DegradedReturns ==
  Degraded =>
    /\ cop.op = "get" => cop.retv = NoneVal
    /\ cop.op \in {"set", "delete", "exists"} => cop.retb = FALSE
    /\ cop.op = "clear_pattern" => cop.retn = 0
    /\ ~cop.raised
\* a delete of a stored key that could not reach the backend
C11_Witness ==
  /\ cop.op = "delete"
  /\ redis_client = "client"
  /\ ~cop.up
  /\ cop.key \in DOMAIN store

\* values that json.loads(json.dumps(v)) gives back: None, strings,
\* integers, lists of such, dicts of such with string keys
RECURSIVE JsonNative(_)
JsonNative(v) ==
  IF ~IsTyped(v) THEN TRUE
  ELSE IF v.py \in {"str", "int"} THEN TRUE
  ELSE IF v.py = "list"
       THEN \A i \in DOMAIN v.items : JsonNative(v.items[i])
  ELSE IF v.py = "dict"
       THEN /\ \A i \in DOMAIN v.keys : v.keys[i].py = "str"
            /\ \A i \in DOMAIN v.vals : JsonNative(v.vals[i])
  ELSE FALSE

\* a get of the key of the set made just before it, both reaching the cache
SetThenGet ==
  /\ redis_client = "client"
  /\ cop.op = "set" /\ cop.up
  /\ cop'.op = "get" /\ cop'.up /\ cop'.key = cop.key
\* the expiry asked for by the last set: its ttl, the default if omitted
AskedTtl == IF cop.ttl = NoTtl THEN cache_ttl ELSE cop.ttl
\* what the get after a set must return: the value at once, a miss (what a
\* key never set gives) once the ttl has elapsed
GetAfterSet ==
  /\ cop'.at = cop.at => cop'.retv = cop.val
  /\ cop'.at >= cop.at + AskedTtl =>
       cop'.retv = CacheGet(<<>>, cop.key, now, redis_client, TRUE)

\* C12 as stated: for every key and every serializable value, set followed
\* at once by get returns the value, and get after the ttl has elapsed
\* returns a miss, as for a key never set.
C12_RoundTripSerializable ==
  [][(SetThenGet /\ Serializable(cop.val)) => GetAfterSet]_vars

\* C12 amended: the same for every value made of None, strings, integers,
\* lists and dicts with string keys.
C12_RoundTripJsonNative ==
  [][(SetThenGet /\ JsonNative(cop.val)) => GetAfterSet]_vars
\* a get that returned the list stored by a set
C12_Witness ==
  /\ cop.op = "get"
  /\ cop.retv = PyList(<<PyInt(1)>>)
  /\ cop.key \in DOMAIN store

\* the last direct call was a set that got as far as redis_client.setex
SetexCalled == cop.op = "set" /\ cop.setex

\* C29: set hands the store the configured default TTL exactly when the
\* caller passed no ttl; whenever the caller passed a ttl, that value is
\* the expiry handed to the store.
C29_DefaultTtlOnlyWhenOmitted ==
  SetexCalled =>
    cop.expiry = IF cop.given THEN cop.ttl ELSE cache_ttl

\* a Python set, which json.dumps has no encoding for
IsPySet(v) == IsTyped(v) /\ v.py = "set"

\* C30: a set call whose value is a Python set returns false, raises
\* nothing and leaves the store as it was: for every key, get returns after
\* the call what it returned before it.
C30_UnserializableSet ==
  [][(cop'.op = "set" /\ IsPySet(cop'.val) /\ now' = now) =>
       /\ ~cop'.retb
       /\ ~cop'.raised
       /\ store' = store
       /\ \A k \in CacheKeys :
            CacheGet(store', k, now', redis_client', TRUE) =
              CacheGet(store, k, now, redis_client, TRUE)]_vars
\* a set of a Python set under a key that holds a live value, with the
\* backend reachable
C30_Witness ==
  /\ cop.op = "set" /\ IsPySet(cop.val)
  /\ redis_client = "client" /\ cop.up
  /\ cop.key \in DOMAIN RedisLive(store, now)
  /\ CacheGet(store, cop.key, now, redis_client, TRUE) = PyStr("a")


\* -------------------------------------------- claims: the session registry

AllIds == (1..MaxSess) \cup {ForgedId}
Without(reg, id) == [k \in DOMAIN reg \ {id} |-> reg[k]]
\* this step is a validate_session(id) call
ValidateStep(id) ==
  /\ sop'.op = "validate" /\ sop'.id = id
  /\ sop' # sop \/ sessions' # sessions
\* this step is an end_session(id) call
EndStep(id) ==
  /\ sop'.op = "end" /\ sop'.id = id
  /\ sop' # sop \/ sessions' # sessions
\* more than `lifetime` seconds have passed since the session was created
PastLifetime(id) ==
  id \in DOMAIN sessions /\ now - sessions[id].created_at > lifetime

\* C13: validate_session right after create_session returns true; a
\* validate_session more than `lifetime` seconds after creation returns false
\* and removes the session; a removed session never returns and every later
\* validate_session on its id returns false.
C13_CreateValidateExpire ==
  [][\A id \in AllIds :
       /\ (sop.op = "create" /\ sop.id = id /\ sop.at = now
           /\ ValidateStep(id)) => sop'.ok
       /\ (ValidateStep(id) /\ PastLifetime(id)) =>
            (~sop'.ok /\ id \notin DOMAIN sessions')
       /\ (id <= issued /\ id \notin DOMAIN sessions) =>
            /\ id \notin DOMAIN sessions'
            /\ ValidateStep(id) => ~sop'.ok]_vars
\* a validate_session that found a session past its lifetime and removed it
C13_Witness ==
  /\ sop.op = "validate" /\ ~sop.ok
  /\ sop.was # NoSession
  /\ sop.at - sop.was.created_at > lifetime
  /\ sop.id \notin DOMAIN sessions

\* C14: created_at never changes while a session lives, and a
\* validate_session more than `lifetime` seconds after creation returns false
\* even when earlier successful calls moved last_accessed forward.
C14_HardCeiling ==
  [][\A id \in DOMAIN sessions :
       /\ id \in DOMAIN sessions' =>
            sessions'[id].created_at = sessions[id].created_at
       /\ (/\ ValidateStep(id)
           /\ sessions[id].last_accessed > sessions[id].created_at
           /\ PastLifetime(id)) => ~sop'.ok]_vars
\* a validate_session that refused a session validated within the last
\* `lifetime` seconds
C14_Witness ==
  /\ sop.op = "validate" /\ ~sop.ok
  /\ sop.was.last_accessed > sop.was.created_at
  /\ sop.at - sop.was.last_accessed <= lifetime
  /\ sop.at - sop.was.created_at > lifetime

\* C15: validate_session(id) on an unknown id returns false and changes
\* nothing; on a session older than `lifetime` it returns false and removes
\* only that session; otherwise it returns true and only sets that session's
\* last_accessed to now.
C15_ThreeOutcomes ==
  [][\A id \in AllIds : ValidateStep(id) =>
       IF id \notin DOMAIN sessions
       THEN ~sop'.ok /\ sessions' = sessions
       ELSE IF now - sessions[id].created_at > lifetime
       THEN ~sop'.ok /\ sessions' = Without(sessions, id)
       ELSE /\ sop'.ok
            /\ DOMAIN sessions' = DOMAIN sessions
            /\ \A k \in DOMAIN sessions \ {id} : sessions'[k] = sessions[k]
            /\ sessions'[id].last_accessed = now
            /\ sessions'[id].created_at = sessions[id].created_at
            /\ sessions'[id].client_id = sessions[id].client_id]_vars
\* a successful validate_session, later than the creation, beside another
\* session
C15_Witness ==
  /\ sop.op = "validate" /\ sop.ok
  /\ sop.id \in DOMAIN sessions
  /\ sessions[sop.id].last_accessed > sessions[sop.id].created_at
  /\ Cardinality(DOMAIN sessions) > 1

\* C16: end_session(id) raises nothing and leaves the registry without id
\* and otherwise as it was, expired or not, known or not; applied again it
\* changes nothing.
C16_EndSession ==
  [][\A id \in AllIds : EndStep(id) =>
       /\ ~sop'.raised
       /\ sessions' = Without(sessions, id)
       /\ (sop.op = "end" /\ sop.id = id) => sessions' = sessions]_vars
\* end_session removed a session past its lifetime, another one stays
C16_Witness ==
  /\ sop.op = "end"
  /\ sop.was # NoSession
  /\ sop.at - sop.was.created_at > lifetime
  /\ sop.id \notin DOMAIN sessions
  /\ DOMAIN sessions # {}

\* ------------------------------------------------------ claims: POST /query

\* this step is the session check of request r
QueryBeginStep(r) == query[r].pc = "idle" /\ query'[r].pc # "idle"
\* this step is the end of the processing of request r
QueryEndStep(r) == query[r].pc = "reading" /\ query'[r].pc = "done"

\* C17: a /query request whose session id is unknown or expired is answered
\* 401 at once; the id is then not in the registry and the request created
\* no session.
C17_InvalidSession401 ==
  [][\A r \in QueryIds : QueryBeginStep(r) =>
       LET c == query'[r].cookie
       IN (c # NoCookie /\ (c \notin DOMAIN sessions \/ PastLifetime(c))) =>
            /\ query'[r].pc = "done"
            /\ query'[r].status = 401
            /\ query'[r].setCookie = NoCookie
            /\ c \notin DOMAIN sessions'
            /\ issued' = issued
            /\ DOMAIN sessions' \subseteq DOMAIN sessions]_vars
\* a request answered 401 for an issued session that had expired
C17_Witness ==
  \E r \in QueryIds :
    /\ query[r].status = 401
    /\ query[r].cookie \in 1..issued
    /\ sop.op = "validate" /\ sop.id = query[r].cookie
    /\ sop.was # NoSession
    /\ query[r].cookie \notin DOMAIN sessions

\* C18: a /query request with a valid question and no session cookie gets a
\* session_id cookie naming a live session, whether it ends 200 or 500.
C18_CookieAlwaysSet ==
  [][\A r \in QueryIds :
       (/\ QueryEndStep(r)
        /\ query[r].cookie = NoCookie
        /\ query'[r].status \in {200, 500}) =>
          /\ query'[r].setCookie \in DOMAIN sessions'
          /\ ~Expired(sessions'[query'[r].setCookie], now, lifetime)]_vars


\* ------------------------------------------- claims: the admission filter

\* a port: digits after the last colon of the header
Ports == {"80", "8000"}
\* the Host header without its port
HostPart(h) ==
  LET n == Len(h.text)
  IN IF n >= 2 /\ h.text[n - 1] = ":" /\ h.text[n] \in Ports
     THEN SubSeq(h.text, 1, n - 2)
     ELSE h.text
\* the middleware refused the last request with this status
Refused(status) == adm.result = "HTTPException" /\ adm.status = status
Dispatched == adm.result # "none"

\* C19: a request is refused with 400 (invalid host) exactly when its Host
\* header without the port is not in the allow-list.
C19_InvalidHost ==
  Dispatched =>
    ((Refused(400) /\ adm.detail = "Invalid host header")
       <=> HostPart(adm.host) \notin ALLOWED_HOSTS)
\* an allowed host that came with a port was let through
C19_Witness ==
  /\ adm.host = Header(<<"localhost", ":", "8000">>)
  /\ adm.result = "response"
  /\ adm.passed

\* the length a Content-Length header declares; none declares 0
Declared ==
  (NoHeader :> 0) @@ (Header(<<"0">>) :> 0) @@
  (Header(<<"1", "1">>) :> 11) @@ (Header(<<"1", "2">>) :> 12) @@
  (Header(<<"1", "3">>) :> 13) @@
  (Header(<<"1", "0", "4", "8", "5", "7", "6">>) :> MAX_REQUEST_SIZE) @@
  (Header(<<"1", "0", "4", "8", "5", "7", "7">>) :> MAX_REQUEST_SIZE + 1)

\* C20: with an allowed host, a request is refused with 413 exactly when
\* its declared content-length is greater than the ceiling; a length equal
\* to the ceiling and an absent content-length pass.
C20_PayloadTooLarge ==
  (/\ Dispatched
   /\ HostPart(adm.host) \in ALLOWED_HOSTS
   /\ adm.clen \in DOMAIN Declared) =>
     /\ Refused(413) <=> Declared[adm.clen] > max_request_size
     /\ ~Refused(413) => adm.passed
\* a request declaring exactly the ceiling was let through
C20_Witness ==
  /\ adm.host = Header(<<"testserver">>)
  /\ adm.clen = Header(<<"1", "2">>)
  /\ max_request_size = 12
  /\ adm.result = "response"


\* C22: every response carries the security headers, whether the request
\* was processed, refused by the filter or failed downstream.
C22_HeadersOnEveryResponse == Dispatched => adm.secured

\* the content-length is there and is not a number
LengthUnreadable == adm.clen.present /\ adm.clen \notin DOMAIN Declared
\* the generic internal-error rejection
InternalError ==
  Refused(500) /\ adm.detail = "Internal server error"

\* C23: an unexpected error while the filter handles a request (a
\* content-length that is not a number, an exception from downstream) ends
\* as HTTPException 500 "Internal server error", nothing else is ever
\* raised, and a host or size rejection keeps its own status.
C23_InternalError ==
  Dispatched =>
    /\ adm.result \in {"response", "HTTPException"}
    /\ HostPart(adm.host) \notin ALLOWED_HOSTS => Refused(400)
    /\ HostPart(adm.host) \in ALLOWED_HOSTS =>
         /\ LengthUnreadable => InternalError
         /\ (/\ adm.clen \in DOMAIN Declared
             /\ Declared[adm.clen] > max_request_size) => Refused(413)
         /\ (/\ adm.clen \in DOMAIN Declared
             /\ Declared[adm.clen] <= max_request_size
             /\ adm.down = "raises") => InternalError
\* a request with an allowed host and an unreadable content-length was
\* refused with the internal error
C23_Witness ==
  /\ adm.host = Header(<<"localhost">>)
  /\ adm.clen = Header(<<"a", "b", "c">>)
  /\ InternalError
  /\ ~adm.passed

GateStep ==
  \/ \E r \in QueryIds, host \in GateHosts, clen \in GateLengths :
       \E cookie \in GateCookies : GateQuery(r, cookie, GatePeer, host, clen)
  \/ \E r \in GateReqs, host \in GateHosts, clen \in GateLengths :
       GateReport(r, host, clen)
\* the last request was refused for its host or for its size
RefusedByFilter == Refused(400) \/ Refused(413)

\* C21: a request refused by the filter for its host or its size runs no
\* session, cache or coordinator logic: the registry (with last_accessed
\* of the session its cookie names), the record of the last registry call,
\* the cache, the lock, its queue and the scheduled tasks are as before.
C21_RejectedBeforeDownstream ==
  [][(GateStep /\ RefusedByFilter') =>
       /\ UNCHANGED <<sessions, issued, sop>>
       /\ UNCHANGED <<store, outage, cop>>
       /\ UNCHANGED <<locked, waiters, pc, ready, result, writes>>]_vars
\* a /query request was refused for its host while its cookie named a live
\* session last used earlier, the report was cached and a computation
\* held the lock
C21_Witness ==
  \E r \in QueryIds :
    /\ query[r].pc = "done" /\ query[r].status = 400
    /\ Refused(400)
    /\ query[r].cookie \in DOMAIN sessions
    /\ ~Expired(sessions[query[r].cookie], now, lifetime)
    /\ sessions[query[r].cookie].last_accessed < now
    /\ ReportKey \in DOMAIN store
    /\ locked

\* ------------------------------------- claims: the coordinator, continued

\* C25: no report request waits for a computation: every request that
\* arrived is answered even if no computation ever ends, and one that found
\* no cached record is answered `generating` or `started`.
C25_NeverWaits ==
  /\ \A r \in ReqIds : (arrived[r] # "no") ~> (r \in Answered)
  /\ [](\A r \in Answered :
          handled[r].cached = NoneVal =>
            resp[r].status \in {"generating", "started"})
\* a request answered `generating` while the computation is still in the
\* executor, and a later one answered too
C25_Witness ==
  \E r, u \in ReqIds, t \in ReqIds :
    /\ r < u
    /\ resp[r].status = "generating" /\ handled[r].lockHeld
    /\ resp[u].status = "generating"
    /\ pc[t] = "running"

\* C26: concurrent triggers never become queued waiters: no scheduled
\* computation is blocked waiting for the lock while another one holds it.
C26_NoQueuedWaiters ==
  \A t \in ReqIds : pc[t] = "waiting" => ~locked

\* this step is the work of a request: its arrival or its answer
RequestStep == arrived' # arrived \/ resp' # resp
\* this step ends computation t
Completes(t) == pc[t] = "resumable" /\ pc'[t] = "done"

\* C27: between its start and its end a computation is not cancelled,
\* restarted or robbed of the lock: it only moves forward, a request's step
\* changes neither it nor the lock, the lock stays held while it goes on,
\* and only a completing computation releases the lock.
C27_NotCancellable ==
  [][/\ \A t \in InCompute :
          /\ pc'[t] \in {pc[t], "resumable", "done"}
          /\ pc[t] = "resumable" => pc'[t] # "running"
          /\ t \in InCompute' => locked'
          /\ RequestStep =>
               (pc'[t] = pc[t] /\ result'[t] = result[t] /\ locked' = locked)
     /\ (locked /\ ~locked') => \E t \in ReqIds : Completes(t)]_vars
\* a request was answered `generating` under the lock of a computation
\* that has since left the executor and still holds the lock
C27_Witness ==
  \E t, r \in ReqIds :
    /\ pc[t] = "resumable"
    /\ locked
    /\ resp[r].status = "generating" /\ handled[r].lockHeld

\* the cache writes made by computation t
WritesOf(t) == {i \in DOMAIN writes : writes[i].task = t}

\* C28: a computation that completed made exactly one write under the
\* report key: after a success the ready record with the schema version and
\* the data, with the standard TTL; after a failure the error record with
\* the message; one that has not completed made none; and no request is
\* answered with an error status.
C28_OneRecordPerComputation ==
  /\ \A t \in ReqIds :
       IF pc[t] = "done"
       THEN /\ Cardinality(WritesOf(t)) = 1
            /\ \A i \in WritesOf(t) :
                 IF result[t].ok
                 THEN /\ writes[i].value =
                           [status |-> "success",
                            version |-> REPORT_SCHEMA_VERSION,
                            data |-> result[t].data]
                      /\ writes[i].ttl = cache_ttl
                 ELSE writes[i].value =
                        [status |-> "error", message |-> result[t].message]
       ELSE WritesOf(t) = {}
  /\ \A r \in Answered : resp[r].code \in {200, 202}
\* one computation failed and one succeeded, each wrote its record, and
\* the cache took the ready one
C28_Witness ==
  \E i, j \in DOMAIN writes :
    /\ writes[i].value.status = "error"
    /\ writes[j].value.status = "success"
    /\ writes[j].ok
    /\ pc[writes[i].task] = "done" /\ pc[writes[j].task] = "done"

\* ------------------------------- claims: the session registry, continued

\* C31: a session past its lifetime stays in the registry, unaltered, over
\* every step that is not a validate_session or end_session call for its
\* own id: create_session, calls for other ids and the passing of time
\* neither remove nor change it.
C31_ExpiredStaysUntilTouched ==
  [][\A id \in DOMAIN sessions :
       PastLifetime(id) =>
         \/ ValidateStep(id)
         \/ EndStep(id)
         \/ id \in DOMAIN sessions' /\ sessions'[id] = sessions[id]]_vars
\* a session was created while an older one, past its lifetime, was still
\* in the registry
C31_Witness ==
  \E id \in DOMAIN sessions :
    /\ sop.op = "create" /\ sop.id # id
    /\ sop.at - sessions[id].created_at > lifetime
    /\ PastLifetime(id)

\* ------------------------------------------ claims: cache key generators

KeyGens ==
  {"get_query_cache_key", "get_session_cache_key", "get_report_cache_key"}
\* the last two calls were calls of generators
TwoKeyCalls == cop.op \in KeyGens /\ cop.retv.op \in KeyGens

\* C32: two keys produced by different generators differ, whatever the
\* user ids, questions and session ids; and a generator called again with
\* the same arguments returns the same key.
C32_NamespacesDisjoint ==
  TwoKeyCalls =>
    /\ cop.op # cop.retv.op => cop.key # cop.retv.key
    /\ (cop.op = cop.retv.op /\ cop.val = cop.retv.val) =>
         cop.key = cop.retv.key
\* the session key of an id that is itself the report key, made right
\* after the report key
C32_Witness ==
  /\ TwoKeyCalls
  /\ cop.op = "get_session_cache_key"
  /\ cop.val = <<get_report_cache_key>>
  /\ cop.retv.op = "get_report_cache_key"

\* ------------------------------- claims: the coordinator, its two states

\* this step is report() answering request r
AnswerStep(r) == resp[r].status = "pending" /\ resp'[r].status # "pending"
\* computations created and not finished: scheduled on the loop, queued
\* for the lock, or holding it
Underway ==
  {t \in ReqIds :
     pc[t] \in {"scheduled", "waiting", "woken", "running", "resumable"}}

\* C33: a request is answered `generating` only if a computation holds the
\* lock when it is handled, and `started` only if at that moment the cache
\* (no call to it having failed) holds no record under the report key and
\* no computation is running or scheduled.
C33_StatusReflectsState ==
  [][\A r \in ReqIds : AnswerStep(r) =>
       /\ resp'[r].status = "generating" => (locked /\ InCompute # {})
       /\ resp'[r].status = "started" =>
            /\ ~outage' => RedisGet(store, ReportKey, now) = NoneVal
            /\ Underway = {}]_vars

\* this step is the beginning of the execution of computation t
BeginStep(t) == pc[t] \in {"scheduled", "woken"} /\ pc'[t] = "running"

\* C34: with a cache no call to which has failed, a computation begins
\* executing only when the cache holds no unexpired record under the
\* report key.
C34_NoRecomputeOfCached ==
  [][\A t \in ReqIds :
       (BeginStep(t) /\ ~outage) =>
         RedisGet(store, ReportKey, now) = NoneVal]_vars

\* ------------------------------------ claims: the cache store, continued

\* this step is a call of `op` that reached the backend
ReachedCall(op) ==
  /\ cop'.op = op /\ now' = now
  /\ redis_client = "client" /\ cop'.up
\* get(k) returns something to the caller: not None
Hit(s, k) == CacheGet(s, k, now, redis_client, TRUE) # NoneVal
\* the keys Redis holds
Present(s) == DOMAIN RedisLive(s, now)

\* C35: with a reachable cache, exists(k) is true exactly when get(k) hits;
\* delete(k) returns true exactly when k was present, and get(k) misses
\* afterwards; clear_pattern(p) returns the number of keys it removed,
\* removes exactly the keys that match p and leaves the others as they were.
C35_ExistsDeleteClear ==
  [][/\ ReachedCall("exists") => (cop'.retb <=> Hit(store, cop'.key))
     /\ ReachedCall("delete") =>
          /\ cop'.retb <=> cop'.key \in Present(store)
          /\ ~Hit(store', cop'.key)
     /\ ReachedCall("clear_pattern") =>
          /\ cop'.retn = Cardinality(Present(store) \ Present(store'))
          /\ Present(store) \ Present(store') =
               {k \in Present(store) : Glob(cop'.key, k)}
          /\ \A k \in Present(store') :
               k \in Present(store) /\ store'[k] = store[k]]_vars

\* key k holds the text `null`, what json.dumps makes of None
StoredNull(s, k) == k \in Present(s) /\ JsonLoads(s[k].value) = NoneVal

\* C35 amended: the same, exists(k) agreeing with get(k) for every key
\* that does not hold a stored None.
C35_ExistsDeleteClearNonNull ==
  [][/\ (ReachedCall("exists") /\ ~StoredNull(store, cop'.key)) =>
          (cop'.retb <=> Hit(store, cop'.key))
     /\ ReachedCall("delete") =>
          /\ cop'.retb <=> cop'.key \in Present(store)
          /\ ~Hit(store', cop'.key)
     /\ ReachedCall("clear_pattern") =>
          /\ cop'.retn = Cardinality(Present(store) \ Present(store'))
          /\ Present(store) \ Present(store') =
               {k \in Present(store) : Glob(cop'.key, k)}
          /\ \A k \in Present(store') :
               k \in Present(store) /\ store'[k] = store[k]]_vars
\* clear_pattern("query:*") removed the query key and left the session
\* key, which get still finds
C35_Witness ==
  /\ cop.op = "clear_pattern" /\ cop.key = "query:*"
  /\ redis_client = "client" /\ cop.up
  /\ cop.retn = 1
  /\ Present(store) = SessionKeys
  /\ \A k \in SessionKeys : Hit(store, k)

\* this step is a direct call of `op`
CallStep(op) == cop'.op = op /\ now' = now
\* the result of the call is the one of a cache that is not there
DegradedResult(c) ==
  /\ c.op = "get" => c.retv = NoneVal
  /\ c.op \in {"set", "delete", "exists"} => c.retb = FALSE
  /\ c.op = "clear_pattern" => c.retn = 0
\* the result of the call is the backend's answer on store s
BackendResult(c, s) ==
  /\ c.op = "get" =>
       c.retv = IF c.key \in Present(s) THEN JsonLoads(s[c.key].value)
                ELSE NoneVal
  /\ c.op = "set" => (c.retb <=> Serializable(c.val))
  /\ c.op \in {"delete", "exists"} => (c.retb <=> c.key \in Present(s))
  /\ c.op = "clear_pattern" =>
       c.retn = Cardinality({k \in Present(s) : Glob(c.key, k)})
CacheOps == {"get", "set", "delete", "exists", "clear_pattern"}

\* C36: a CacheManager constructed without a client (cache disabled, or
\* the ping failed) answers every later call with the miss/false/0 result
\* and never gets a client, reachable backend or not; one constructed with
\* a client keeps it: a call during which the backend fails gets the
\* miss/false/0 result, and a call made after such a failure, the backend
\* answering again, gets the backend's result.
C36_StartupVersusCallTime ==
  [][/\ redis_client' = redis_client
     /\ \A op \in CacheOps : CallStep(op) =>
          /\ redis_client = "None" =>
               (DegradedResult(cop') /\ store' = store)
          /\ (redis_client = "client" /\ ~cop'.up) =>
               (DegradedResult(cop') /\ store' = store)
          /\ (redis_client = "client" /\ cop'.up /\ outage) =>
               BackendResult(cop', store)]_vars
\* after a call that could not reach the backend, a get found a value
C36_Witness ==
  /\ outage
  /\ redis_client = "client"
  /\ cop.op = "get" /\ cop.up
  /\ cop.retv = PyStr("a")

\* ------------------------------- claims: sessions and who presents them

\* C37: whether a /query request that presents a session id passes the
\* session check is decided by the id, the creation time stored under it
\* and the current time alone: it passes exactly when the id is in the
\* registry and no more than `lifetime` seconds old, whoever presents it.
C37_ValidateIgnoresRequester ==
  [][\A r \in QueryIds :
       (QueryBeginStep(r) /\ query'[r].cookie # NoCookie) =>
         LET c == query'[r].cookie
         IN (query'[r].pc = "reading") <=>
              (c \in DOMAIN sessions /\
                 now - sessions[c].created_at <= lifetime)]_vars
\* a request passed the session check with a session created for another
\* client
C37_Witness ==
  \E r \in QueryIds :
    /\ query[r].pc = "reading"
    /\ query[r].cookie \in DOMAIN sessions
    /\ sessions[query[r].cookie].client_id # query[r].peer

\* C38: for every session in the registry, created_at and the owner stay
\* what they were at creation, last_accessed never decreases, and
\* last_accessed is never before created_at.
C38_SessionFields ==
  /\ [][\A id \in DOMAIN sessions \cap DOMAIN sessions' :
          /\ sessions'[id].created_at = sessions[id].created_at
          /\ sessions'[id].client_id = sessions[id].client_id
          /\ sessions'[id].last_accessed >= sessions[id].last_accessed]_vars
  /\ [](\A id \in DOMAIN sessions :
          sessions[id].last_accessed >= sessions[id].created_at)
\* a session validated some time after its creation, next to one created
\* later for another client
C38_Witness ==
  \E id, other \in DOMAIN sessions :
    /\ sessions[id].last_accessed > sessions[id].created_at
    /\ sessions[other].created_at > sessions[id].created_at
    /\ sessions[other].client_id # sessions[id].client_id
    /\ sop.op = "validate" /\ sop.id = id /\ sop.ok

\* ------------------------------ claims: the admission filter, its order

\* the last request declared a length over the ceiling
Oversize ==
  adm.clen \in DOMAIN Declared /\ Declared[adm.clen] > max_request_size

\* C39: the host is checked before the size, and both before the request
\* goes downstream: a request with a host outside the allow-list and a
\* length over the ceiling is refused as an invalid host, a refused
\* request is not handed to call_next, and a request handed to call_next
\* has an allowed host and no length over the ceiling.
C39_HostBeforeSize ==
  Dispatched =>
    /\ (HostPart(adm.host) \notin ALLOWED_HOSTS /\ Oversize) =>
         (Refused(400) /\ adm.detail = "Invalid host header")
    /\ (Refused(400) \/ Refused(413)) => ~adm.passed
    /\ adm.passed => (HostPart(adm.host) \in ALLOWED_HOSTS /\ ~Oversize)
\* a request from evil.com with a body over both ceilings, refused for its
\* host
C39_Witness ==
  /\ adm.host = Header(<<"evil.com", ":", "80">>)
  /\ Oversize
  /\ adm.clen = Header(<<"1", "0", "4", "8", "5", "7", "7">>)
  /\ Refused(400)
  /\ ~adm.passed

====
